---- MODULE Spec2Model ----
(***************************************************************************)
(* A model of d3d12/src/com.rs: ComPtr<T>, the nullable reference-counted  *)
(* COM pointer, and the enum generated by weak_com_inheritance_chain!.     *)
(*                                                                         *)
(* The native layer (IUnknown::AddRef, Release, QueryInterface) is the     *)
(* environment.  Every call the code makes on it is recorded, in order, in *)
(* last.calls, and the native objects' strong-reference counts are         *)
(* advanced by running those calls.                                        *)
(*                                                                         *)
(* The type parameter T of ComPtr<T> has no run-time representation and no *)
(* operation of ComPtr reads it; it is resolved where it matters: at a     *)
(* cast (whether the object answers for U is the native layer's choice)    *)
(* and at the chain constructor (the variant the pointer is wrapped as).   *)
(*                                                                         *)
(* com.rs holds two definitions of Drop, of as_unknown and of Deref.  A     *)
(* build has one of each, with debug_assert! compiled in or not: dropImpl, *)
(* asUnknownAsserts, derefImpl and debugAssertions are fixed in the        *)
(* initial state.                                                          *)
(***************************************************************************)
EXTENDS Integers, Sequences, FiniteSets, TLC

\* ---------------------------------------------------------------- bounds
MaxHandles == 3
NumObjects == 1
MaxOwned == 1
MaxChains == 1
NumThreads == 2

\* ------------------------------------------------------------- constants
Null == 0
NumVariants == 3
FirstVariant == 1

Addr == 1..NumObjects
Ptr == {Null} \cup Addr
HandleId == 1..MaxHandles
Thread == 1..NumThreads
Variant == 1..NumVariants

S_OK == "S_OK"
FailCodes == {"E_NOINTERFACE", "E_POINTER"}
NoStatus == "-"

VARIABLES
    handles,            \* HandleId -> the ComPtr values made so far
    refcount,           \* Addr -> the native strong-reference count
    destroyed,          \* Addr -> how many times native destruction fired
    owned,              \* Addr -> references the caller holds as raw pointers
    dropImpl,           \* which impl Drop the build has
    asUnknownAsserts,   \* as_unknown is the asserting one, in a debug build
    debugAssertions,    \* the build has debug_assert! compiled in
    derefImpl,          \* which impl Deref the build has
    threads,            \* per thread: the ComPtrs it holds, the clone it is in
    halt,               \* "run", or how the program stopped
    last                \* the last operation: arguments, native calls, result

vars == <<handles, refcount, destroyed, owned, dropImpl, asUnknownAsserts,
          debugAssertions, derefImpl, threads, halt, last>>

\* ------------------------------------------------------- the native layer
Call(fn, a) == [fn |-> fn, on |-> a]

\* One native call on a non-null object: AddRef increments, Release
\* decrements and fires destruction at zero.  QueryInterface's own effect
\* (the reference it hands out) is applied by Negotiate.
NativeStep(n, c) ==
    IF c.fn = "AddRef" THEN [n EXCEPT !.rc[c.on] = @ + 1]
    ELSE IF c.fn = "Release"
         THEN [rc |-> [n.rc EXCEPT ![c.on] = @ - 1],
               de |-> IF n.rc[c.on] - 1 = 0
                      THEN [n.de EXCEPT ![c.on] = @ + 1] ELSE n.de]
    ELSE n

RECURSIVE NativeRun(_, _)
NativeRun(n, calls) ==
    IF calls = <<>> THEN n
    ELSE NativeRun(NativeStep(n, Head(calls)), Tail(calls))

\* The outcomes of QueryInterface on a live object a: the object answers
\* for the requested interface (its address, one reference added by the
\* native layer, S_OK), or it does not (null and a failure status).
Negotiate(a) ==
    {[addr |-> a, hr |-> S_OK]} \cup {[addr |-> Null, hr |-> c] : c \in FailCodes}

NegotiateRc(rc, out) ==
    IF out.addr # Null THEN [rc EXCEPT ![out.addr] = @ + 1] ELSE rc
NegotiateNative(n, out) == [n EXCEPT !.rc = NegotiateRc(n.rc, out)]

\* ------------------------------------------------------------- ComPtr<T>
Alive(a) == destroyed[a] = 0

\* A ComPtr value: its stored pointer, and what became of it.  variant is
\* the chain variant it is wrapped as (0: not in a chain value); rel counts
\* the Release calls made for it; succ is the value it was moved to.
FreeHandle == [st |-> "free", ptr |-> Null, variant |-> 0, rel |-> 0, succ |-> 0]
ComPtr(p) == [st |-> "live", ptr |-> p, variant |-> 0, rel |-> 0, succ |-> 0]

is_null(h) == handles[h].ptr = Null
as_mut_ptr(h) == handles[h].ptr

IsLive(h) == handles[h].st = "live"
NextFree == CHOOSE h \in HandleId : handles[h].st = "free" /\ \A g \in 1..(h - 1) : handles[g].st # "free"
HasFree == \E h \in HandleId : handles[h].st = "free"

NoRet == [present |-> FALSE, ptr |-> Null, hr |-> NoStatus]
NoQuery == [addr |-> Null, hr |-> NoStatus]
NoPre == [op |-> "-", h |-> 0, before |-> 0]

\* The record of an operation on ComPtr h with result res: the object it
\* concerns and its count before, the native calls made, QueryInterface's
\* output q, the value returned, the variant asked for.  pre is the
\* operation just before, when that one made h.  out is what else the
\* operation produced (a panic message, a comparison's results): a tuple,
\* set by the operations that have one.
Op(name, h, res, a, calls, q, ret, i) ==
    [op |-> name, h |-> h, res |-> res, addr |-> a,
     before |-> IF a = Null THEN 0 ELSE refcount[a],
     calls |-> calls, q |-> q, ret |-> ret, i |-> i, out |-> <<>>,
     pre |-> IF h # 0 /\ last.res = h
             THEN [op |-> last.op, h |-> last.h, before |-> last.before]
             ELSE NoPre]

Running == halt = "run"

\* A thread between operations, holding no ComPtr.
IdleThread == [pc |-> "idle", h |-> 0, own |-> {}]

NoOp == [op |-> "init", h |-> 0, res |-> 0, addr |-> Null, before |-> 0,
         calls |-> <<>>, q |-> NoQuery, ret |-> NoRet, i |-> 0, out |-> <<>>,
         pre |-> NoPre]

Native == [rc |-> refcount, de |-> destroyed]

\* No ComPtr made yet, no object referenced.
InitProgram ==
    /\ handles = [h \in HandleId |-> FreeHandle]
    /\ refcount = [a \in Addr |-> 0]
    /\ destroyed = [a \in Addr |-> 0]
    /\ owned = [a \in Addr |-> 0]
    /\ threads = [t \in Thread |-> IdleThread]
    /\ halt = "run"
    /\ last = NoOp

\* Every build: as_unknown can only assert where debug_assert! is compiled in.
InitBuilds ==
    /\ InitProgram
    /\ dropImpl \in {"guarded", "unguarded"}
    /\ derefImpl \in {"asserting", "plain"}
    /\ debugAssertions \in BOOLEAN
    /\ asUnknownAsserts \in BOOLEAN
    /\ asUnknownAsserts => debugAssertions

\* The builds as far as Drop and as_unknown tell them apart.  The
\* operations on a ComPtr whose precondition holds read neither derefImpl
\* nor debugAssertions, which take one value each here.
Init ==
    /\ InitProgram
    /\ dropImpl \in {"guarded", "unguarded"}
    /\ asUnknownAsserts \in BOOLEAN
    /\ debugAssertions = asUnknownAsserts
    /\ derefImpl = "asserting"

\* The caller obtains a reference of its own on a raw pointer (a creation
\* call of the native layer, or its own AddRef): what from_reffed assumes.
NativeGrant(a) ==
    /\ Running /\ Alive(a) /\ owned[a] < MaxOwned
    /\ refcount' = [refcount EXCEPT ![a] = @ + 1]
    /\ owned' = [owned EXCEPT ![a] = @ + 1]
    /\ last' = Op("grant", 0, 0, a, <<>>, NoQuery, NoRet, 0)
    /\ UNCHANGED <<handles, destroyed, dropImpl, asUnknownAsserts, debugAssertions, derefImpl, threads, halt>>

\* ComPtr::null
null_calls == <<>>
MakeNull ==
    /\ Running /\ HasFree
    /\ handles' = [handles EXCEPT ![NextFree] = ComPtr(Null)]
    /\ last' = Op("null", 0, NextFree, Null, null_calls, NoQuery,
                  [present |-> TRUE, ptr |-> Null, hr |-> NoStatus], 0)
    /\ UNCHANGED <<refcount, destroyed, owned, dropImpl, asUnknownAsserts, debugAssertions, derefImpl, threads, halt>>

\* ComPtr::from_reffed: no AddRef, the caller's reference becomes the ComPtr's
\* (mutation: an adopt that acquires as well)
from_reffed_calls_addref(raw) == <<Call("AddRef", raw)>>
from_reffed_calls(raw) == <<>>
from_reffed(raw) ==
    /\ Running /\ HasFree
    /\ raw # Null /\ Alive(raw) /\ owned[raw] > 0
    /\ LET n == NativeRun(Native, from_reffed_calls(raw)) IN
        /\ refcount' = n.rc
        /\ destroyed' = n.de
    /\ owned' = [owned EXCEPT ![raw] = @ - 1]
    /\ handles' = [handles EXCEPT ![NextFree] = ComPtr(raw)]
    /\ last' = Op("from_reffed", 0, NextFree, raw, from_reffed_calls(raw), NoQuery,
                  [present |-> TRUE, ptr |-> raw, hr |-> NoStatus], 0)
    /\ UNCHANGED <<dropImpl, asUnknownAsserts, debugAssertions, derefImpl, threads, halt>>

\* ComPtr::from_raw: AddRef, then store
\* (mutation: an acquire that forgets its AddRef)
from_raw_calls_none(raw) == <<>>
from_raw_calls(raw) == <<Call("AddRef", raw)>>
from_raw(raw) ==
    /\ Running /\ HasFree
    /\ raw # Null /\ Alive(raw)
    /\ LET n == NativeRun(Native, from_raw_calls(raw)) IN
        /\ refcount' = n.rc
        /\ destroyed' = n.de
    /\ handles' = [handles EXCEPT ![NextFree] = ComPtr(raw)]
    /\ last' = Op("from_raw", 0, NextFree, raw, from_raw_calls(raw), NoQuery,
                  [present |-> TRUE, ptr |-> raw, hr |-> NoStatus], 0)
    /\ UNCHANGED <<owned, dropImpl, asUnknownAsserts, debugAssertions, derefImpl, threads, halt>>

\* impl Clone: AddRef through as_unknown, then a ComPtr of the same pointer
\* (mutations: a clone that copies the pointer only; one that acquires twice)
clone_calls_bitcopy(p) == <<>>
clone_calls_twice(p) == <<Call("AddRef", p), Call("AddRef", p)>>
clone_calls(p) == <<Call("AddRef", p)>>
clone_ptr(p) == p
Clone(h) ==
    /\ Running /\ HasFree
    /\ IsLive(h) /\ ~is_null(h)
    /\ LET p == handles[h].ptr
           n == NativeRun(Native, clone_calls(p)) IN
        /\ refcount' = n.rc
        /\ destroyed' = n.de
        /\ handles' = [handles EXCEPT ![NextFree] = ComPtr(clone_ptr(p))]
        /\ last' = Op("clone", h, NextFree, p, clone_calls(p), NoQuery,
                      [present |-> TRUE, ptr |-> clone_ptr(p), hr |-> NoStatus], 0)
    /\ UNCHANGED <<owned, dropImpl, asUnknownAsserts, debugAssertions, derefImpl, threads, halt>>

\* A move of a ComPtr value: no code runs, the source is not dropped
move_calls(p) == <<>>
Move(h) ==
    /\ Running /\ HasFree
    /\ IsLive(h) /\ handles[h].variant = 0
    /\ LET p == handles[h].ptr
           n == NativeRun(Native, move_calls(p)) IN
        /\ refcount' = n.rc
        /\ destroyed' = n.de
        /\ handles' = [handles EXCEPT ![h].st = "moved", ![h].succ = NextFree,
                                      ![h].rel = @ + Len(move_calls(p)),
                                      ![NextFree] = ComPtr(p)]
        /\ last' = Op("move", h, NextFree, p, move_calls(p), NoQuery,
                      [present |-> TRUE, ptr |-> p, hr |-> NoStatus], 0)
    /\ UNCHANGED <<owned, dropImpl, asUnknownAsserts, debugAssertions, derefImpl, threads, halt>>

\* impl Drop, both definitions.  The guarded one releases if the pointer is
\* not null.  The other one calls as_unknown().Release() on whatever it holds.
\* (mutations: both Drop definitions run, one after the other; a Drop that
\* releases nothing)
drop_calls_none(impl, p) == <<>>
drop_calls_both(impl, p) ==
    IF p # Null THEN <<Call("Release", p), Call("Release", p)>> ELSE <<>>
drop_calls(impl, p) ==
    IF impl = "guarded"
    THEN (IF p # Null THEN <<Call("Release", p)>> ELSE <<>>)
    ELSE <<Call("Release", p)>>

\* What as_unknown() does with a null pointer, when a handler reaches it:
\* the asserting definition panics in a debug build, before any native
\* call; otherwise a reference to address zero is made and the native call
\* goes through it, which is undefined behaviour: the call is recorded with
\* the null address, no object's count is touched and the program stops.
NullOutcome == IF asUnknownAsserts THEN "panic" ELSE "fault"

Drop(h) ==
    /\ Running /\ IsLive(h)
    /\ LET p == handles[h].ptr
           calls == drop_calls(dropImpl, p) IN
        IF \E k \in 1..Len(calls) : calls[k].on = Null
        THEN /\ halt' = NullOutcome
             /\ last' = Op("drop", h, 0, p,
                           IF asUnknownAsserts THEN <<>> ELSE calls,
                           NoQuery, NoRet, 0)
             /\ UNCHANGED <<handles, refcount, destroyed>>
        ELSE LET n == NativeRun(Native, calls) IN
             /\ refcount' = n.rc
             /\ destroyed' = n.de
             /\ handles' = [handles EXCEPT ![h].st = "dropped", ![h].rel = @ + Len(calls)]
             /\ last' = Op("drop", h, 0, p, calls, NoQuery, NoRet, 0)
             /\ UNCHANGED halt
    /\ UNCHANGED <<owned, dropImpl, asUnknownAsserts, debugAssertions, derefImpl, threads>>

\* mut_void / mut_self: the address of the stored pointer.  A write through
\* it replaces the stored pointer and runs no code of ComPtr.
SlotWrite(hrec, p) == [hrec EXCEPT !.ptr = p]

\* mut_void, mut_self: &mut self.0 as a raw pointer; the slot of h is named
\* by h
mut_void(h) == h
mut_self(h) == h
slot_calls == <<>>
MutVoid(h) ==
    /\ Running /\ IsLive(h)
    /\ last' = [Op("mut_void", h, 0, handles[h].ptr, slot_calls, NoQuery, NoRet, 0)
                EXCEPT !.out = <<mut_void(h)>>]
    /\ UNCHANGED <<handles, refcount, destroyed, owned, dropImpl, asUnknownAsserts,
                   debugAssertions, derefImpl, threads, halt>>

MutSelf(h) ==
    /\ Running /\ IsLive(h)
    /\ last' = [Op("mut_self", h, 0, handles[h].ptr, slot_calls, NoQuery, NoRet, 0)
                EXCEPT !.out = <<mut_self(h)>>]
    /\ UNCHANGED <<handles, refcount, destroyed, owned, dropImpl, asUnknownAsserts,
                   debugAssertions, derefImpl, threads, halt>>

\* The caller (a D3D creation function) writes a pointer it holds a
\* reference on through the slot it was just given.  The write is a plain
\* store: no code of ComPtr runs, whatever the slot held.  The reference a
\* non-null slot held is kept on record as an "overwritten" value, which
\* nothing will release; the ComPtr goes on as a value holding the new
\* pointer.
\* (mutation: a store that releases what the slot held)
slot_write_calls_release(prev, p) ==
    IF prev # Null THEN <<Call("Release", prev)>> ELSE <<>>
slot_write_calls(prev, p) == <<>>
WriteSlot(h, a) ==
    /\ Running /\ IsLive(h)
    /\ last.op \in {"mut_void", "mut_self"} /\ last.out = <<h>>
    /\ Alive(a) /\ owned[a] > 0
    /\ ~is_null(h) => HasFree
    /\ LET prev == handles[h].ptr
           calls == slot_write_calls(prev, a)
           n == NativeRun(Native, calls)
           res == IF prev = Null THEN h ELSE NextFree IN
        /\ refcount' = n.rc
        /\ destroyed' = n.de
        /\ handles' = IF prev = Null
                      THEN [handles EXCEPT ![h] = SlotWrite(@, a)]
                      ELSE [handles EXCEPT ![h].st = "overwritten", ![h].succ = res,
                                           ![h].rel = @ + Len(calls),
                                           ![res] = SlotWrite(handles[h], a)]
        /\ last' = [Op("slot_write", h, res, prev, calls, NoQuery,
                       [present |-> TRUE, ptr |-> a, hr |-> NoStatus], 0)
                    EXCEPT !.out = <<a>>]
    /\ owned' = [owned EXCEPT ![a] = @ - 1]
    /\ UNCHANGED <<dropImpl, asUnknownAsserts, debugAssertions, derefImpl, threads, halt>>

\* cast, the unsafe definition: a null ComPtr<U> whose slot QueryInterface
\* fills, returned with the HRESULT
cast_strict_calls(p) == <<Call("QueryInterface", p)>>
\* let mut obj = ComPtr::<U>::null(): the value whose slot is handed out
\* (mutation: self's own slot handed out)
cast_strict_obj_self(hrec) == hrec
cast_strict_obj(hrec) == ComPtr(Null)
\* (mutation: the HRESULT reduced to supported / not supported)
cast_strict_ret_collapsed(out) ==
    [present |-> TRUE, ptr |-> out.addr,
     hr |-> IF out.addr # Null THEN S_OK ELSE "E_NOINTERFACE"]
cast_strict_ret(out) == [present |-> TRUE, ptr |-> out.addr, hr |-> out.hr]
CastStrict(h) ==
    /\ Running /\ HasFree
    /\ IsLive(h) /\ ~is_null(h)
    /\ \E out \in Negotiate(handles[h].ptr) :
        LET p == handles[h].ptr
            calls == cast_strict_calls(p)
            n == NativeRun(NegotiateNative(Native, out), SubSeq(calls, 2, Len(calls)))
            ret == cast_strict_ret(out)
            obj == cast_strict_obj(handles[h]) IN
        /\ refcount' = n.rc
        /\ destroyed' = n.de
        /\ handles' = [handles EXCEPT ![NextFree] = SlotWrite(obj, ret.ptr)]
        /\ last' = [Op("cast_strict", h, NextFree, p, calls, out, ret, 0)
                    EXCEPT !.out = <<obj.ptr>>]
    /\ UNCHANGED <<owned, dropImpl, asUnknownAsserts, debugAssertions, derefImpl, threads, halt>>

\* cast, the safe definition: QueryInterface into a local raw pointer, which
\* from_reffed wraps if it is not null
\* (mutation: the null check before from_reffed left out)
cast_tolerant_present_always(out) == TRUE
cast_tolerant_present(out) == out.addr # Null
\* the pointers from_reffed is called with
cast_tolerant_adopts(out) == IF cast_tolerant_present(out) THEN <<out.addr>> ELSE <<>>
cast_tolerant_calls(p, out) ==
    <<Call("QueryInterface", p)>> \o
    (IF cast_tolerant_present(out) THEN from_reffed_calls(out.addr) ELSE <<>>)
cast_tolerant_ret(out) ==
    [present |-> cast_tolerant_present(out),
     ptr |-> IF cast_tolerant_present(out) THEN out.addr ELSE Null,
     hr |-> out.hr]
CastTolerant(h) ==
    /\ Running
    /\ IsLive(h) /\ ~is_null(h)
    /\ \E out \in Negotiate(handles[h].ptr) :
        LET p == handles[h].ptr
            calls == cast_tolerant_calls(p, out)
            n == NativeRun(NegotiateNative(Native, out), SubSeq(calls, 2, Len(calls)))
            ret == cast_tolerant_ret(out) IN
        /\ ret.present => HasFree
        /\ refcount' = n.rc
        /\ destroyed' = n.de
        /\ handles' = IF ret.present
                      THEN [handles EXCEPT ![NextFree] = ComPtr(ret.ptr)]
                      ELSE handles
        /\ last' = [Op("cast_tolerant", h, IF ret.present THEN NextFree ELSE 0,
                       p, calls, out, ret, 0)
                    EXCEPT !.out = cast_tolerant_adopts(out)]
        \* from_reffed: debug_assert!(!raw.is_null())
        /\ halt' = IF debugAssertions /\ \E k \in 1..Len(cast_tolerant_adopts(out)) :
                                            cast_tolerant_adopts(out)[k] = Null
                   THEN "panic" ELSE halt
    /\ UNCHANGED <<owned, dropImpl, asUnknownAsserts, debugAssertions, derefImpl, threads>>

\* impl PartialEq for ComPtr: self.0 == other.0
\* (mutation: the two ComPtr values compared, not the pointers they store)
eq_identity(h1, h2) == h1 = h2
eq(h1, h2) == handles[h1].ptr = handles[h2].ptr

\* impl PartialEq<*mut T> for ComPtr: self.0 == *other
eq_raw(h, p) == handles[h].ptr = p

\* impl Hash for ComPtr: self.0.hash(state), the stored pointer written to
\* the hasher; a hasher is the sequence of what was written to it
hash(h, state) == Append(state, handles[h].ptr)

\* h1 == h2, with h2 == h1 and the two hashes taken alongside
Compare(h1, h2) ==
    /\ Running
    /\ IsLive(h1) /\ IsLive(h2)
    /\ last' = [Op("eq", h1, 0, handles[h1].ptr, <<>>, NoQuery, NoRet, 0)
                    EXCEPT !.out = <<h2, eq(h1, h2), eq(h2, h1),
                                     hash(h1, <<>>), hash(h2, <<>>)>>]
    /\ UNCHANGED <<handles, refcount, destroyed, owned, dropImpl, asUnknownAsserts, debugAssertions, derefImpl, threads, halt>>

\* h == p for a raw pointer p
CompareRaw(h, p) ==
    /\ Running
    /\ IsLive(h)
    /\ last' = [Op("eq_raw", h, 0, handles[h].ptr, <<>>, NoQuery, NoRet, 0)
                    EXCEPT !.out = <<p, eq_raw(h, p)>>]
    /\ UNCHANGED <<handles, refcount, destroyed, owned, dropImpl, asUnknownAsserts, debugAssertions, derefImpl, threads, halt>>

\* ------------------------------- the operations that assume a non-null self
\* What a handler does on finding its pointer null, given whether its own
\* check is compiled in: a panic, or on into undefined behaviour.
Unchecked(checked) == IF checked THEN "panic" ELSE "fault"

\* as_unknown, both definitions: a reference to the object as IUnknown.  On
\* a null pointer the asserting one panics in a debug build; otherwise a
\* reference to address zero comes back, which the program may survive
\* until it is used.
as_unknown_checks == asUnknownAsserts
AsUnknown(h) ==
    /\ Running /\ IsLive(h)
    /\ LET p == handles[h].ptr IN
        IF p = Null /\ as_unknown_checks
        THEN /\ halt' = "panic"
             /\ last' = Op("as_unknown", h, 0, p, <<>>, NoQuery, NoRet, 0)
        ELSE /\ halt' \in (IF p = Null THEN {"run", "fault"} ELSE {"run"})
             /\ last' = Op("as_unknown", h, 0, p, <<>>, NoQuery,
                           [present |-> TRUE, ptr |-> p, hr |-> NoStatus], 0)
    /\ UNCHANGED <<handles, refcount, destroyed, owned, dropImpl, asUnknownAsserts,
                   debugAssertions, derefImpl, threads>>

\* impl Deref, both definitions: assert!(!self.is_null()) in one, in every
\* build; no check in the other
deref_checks == derefImpl = "asserting"
Deref(h) ==
    /\ Running /\ IsLive(h)
    /\ LET p == handles[h].ptr IN
        IF p = Null /\ deref_checks
        THEN /\ halt' = "panic"
             /\ last' = Op("deref", h, 0, p, <<>>, NoQuery, NoRet, 0)
        ELSE /\ halt' \in (IF p = Null THEN {"run", "fault"} ELSE {"run"})
             /\ last' = Op("deref", h, 0, p, <<>>, NoQuery,
                           [present |-> TRUE, ptr |-> p, hr |-> NoStatus], 0)
    /\ UNCHANGED <<handles, refcount, destroyed, owned, dropImpl, asUnknownAsserts,
                   debugAssertions, derefImpl, threads>>

\* clone of a null ComPtr: debug_assert!(!self.is_null()), then
\* as_unknown().AddRef()
clone_checks == debugAssertions
CloneNull(h) ==
    /\ Running /\ IsLive(h) /\ is_null(h)
    /\ halt' = Unchecked(clone_checks)
    /\ last' = Op("clone", h, 0, Null,
                  IF clone_checks THEN <<>> ELSE clone_calls(Null),
                  NoQuery, NoRet, 0)
    /\ UNCHANGED <<handles, refcount, destroyed, owned, dropImpl, asUnknownAsserts,
                   debugAssertions, derefImpl, threads>>

\* the unsafe cast of a null ComPtr: debug_assert!(!self.is_null()), then
\* as_unknown().QueryInterface(..)
cast_strict_checks == debugAssertions
CastStrictNull(h) ==
    /\ Running /\ IsLive(h) /\ is_null(h)
    /\ halt' = Unchecked(cast_strict_checks)
    /\ last' = Op("cast_strict", h, 0, Null,
                  IF cast_strict_checks THEN <<>> ELSE cast_strict_calls(Null),
                  NoQuery, NoRet, 0)
    /\ UNCHANGED <<handles, refcount, destroyed, owned, dropImpl, asUnknownAsserts,
                   debugAssertions, derefImpl, threads>>

\* ------------------------------------------------- ComPtrs on several threads
\* Each thread has ComPtrs of its own on objects the threads share.  AddRef
\* and Release are the only accesses to shared state and are atomic (the
\* native layer's part); clone is split at its AddRef: the call, then the
\* construction of the new ComPtr from the thread's own pointer.  No step
\* waits for another thread.
FreeSlots == {h \in HandleId : handles[h].st = "free"}
InClone == {t \in Thread : threads[t].pc = "clone"}
HasFreeFor(t) == Cardinality(FreeSlots) > Cardinality(InClone)

\* from_raw on thread t
ThreadFromRaw(t, raw) ==
    /\ Running /\ threads[t].pc = "idle" /\ HasFreeFor(t)
    /\ raw # Null /\ Alive(raw)
    /\ LET n == NativeRun(Native, from_raw_calls(raw)) IN
        /\ refcount' = n.rc
        /\ destroyed' = n.de
    /\ handles' = [handles EXCEPT ![NextFree] = ComPtr(raw)]
    /\ threads' = [threads EXCEPT ![t].own = @ \cup {NextFree}]
    /\ last' = [Op("from_raw", 0, NextFree, raw, from_raw_calls(raw), NoQuery,
                   [present |-> TRUE, ptr |-> raw, hr |-> NoStatus], 0)
                EXCEPT !.out = <<t>>]
    /\ UNCHANGED <<owned, dropImpl, asUnknownAsserts, debugAssertions, derefImpl, halt>>

\* clone on thread t, up to and with self.as_unknown().AddRef()
ThreadCloneCall(t, h) ==
    /\ Running /\ threads[t].pc = "idle" /\ HasFreeFor(t)
    /\ h \in threads[t].own /\ IsLive(h) /\ ~is_null(h)
    /\ LET p == handles[h].ptr
           n == NativeRun(Native, clone_calls(p)) IN
        /\ refcount' = n.rc
        /\ destroyed' = n.de
        /\ last' = [Op("clone_call", h, 0, p, clone_calls(p), NoQuery, NoRet, 0)
                    EXCEPT !.out = <<t>>]
    /\ threads' = [threads EXCEPT ![t].pc = "clone", ![t].h = h]
    /\ UNCHANGED <<handles, owned, dropImpl, asUnknownAsserts, debugAssertions, derefImpl, halt>>

\* clone on thread t, the rest: ComPtr(self.0)
ThreadCloneRet(t) ==
    /\ Running /\ threads[t].pc = "clone"
    /\ LET h == threads[t].h
           p == handles[h].ptr IN
        /\ handles' = [handles EXCEPT ![NextFree] = ComPtr(clone_ptr(p))]
        /\ last' = [Op("clone", h, NextFree, p, <<>>, NoQuery,
                       [present |-> TRUE, ptr |-> clone_ptr(p), hr |-> NoStatus], 0)
                    EXCEPT !.out = <<t>>]
    /\ threads' = [threads EXCEPT ![t].pc = "idle", ![t].h = 0,
                                  ![t].own = @ \cup {NextFree}]
    /\ UNCHANGED <<refcount, destroyed, owned, dropImpl, asUnknownAsserts,
                   debugAssertions, derefImpl, halt>>

\* drop on thread t of a ComPtr it holds: the null test reads the thread's
\* own pointer, Release is the one shared access
ThreadDrop(t, h) ==
    /\ Running /\ threads[t].pc = "idle"
    /\ h \in threads[t].own /\ IsLive(h) /\ ~is_null(h)
    /\ LET p == handles[h].ptr
           calls == drop_calls(dropImpl, p)
           n == NativeRun(Native, calls) IN
        /\ refcount' = n.rc
        /\ destroyed' = n.de
        /\ handles' = [handles EXCEPT ![h].st = "dropped", ![h].rel = @ + Len(calls)]
        /\ last' = [Op("drop", h, 0, p, calls, NoQuery, NoRet, 0) EXCEPT !.out = <<t>>]
    /\ UNCHANGED <<owned, dropImpl, asUnknownAsserts, debugAssertions, derefImpl,
                   threads, halt>>

\* ------------------------------------------ weak_com_inheritance_chain!
\* @recursion_logic: the variants before and after variant i
\* (mutation: the variant itself counted among the earlier ones)
PrevVariants_upto(i) == 1..i
PrevVariants(i) == 1..(i - 1)
NextVariants(i) == (i + 1)..NumVariants

\* $from_name: Self::$variant(value); the ComPtr is moved into the enum
\* (mutation: the constructor acquires a reference for the enum)
from_name_calls_addref(p) == <<Call("AddRef", p)>>
from_name_calls(p) == <<>>
FromName(h, i) ==
    /\ Running
    /\ IsLive(h) /\ handles[h].variant = 0
    /\ Cardinality({g \in HandleId : handles[g].variant # 0}) < MaxChains
    /\ LET p == handles[h].ptr
           n == NativeRun(Native, from_name_calls(p)) IN
        /\ refcount' = n.rc
        /\ destroyed' = n.de
        /\ handles' = [handles EXCEPT ![h].variant = i]
        /\ last' = Op("from_name", h, h, p, from_name_calls(p), NoQuery,
                      [present |-> TRUE, ptr |-> p, hr |-> NoStatus], i)
    /\ UNCHANGED <<owned, dropImpl, asUnknownAsserts, debugAssertions, derefImpl, threads, halt>>

\* $as_name of variant i on a value holding variant j with pointer p: the
\* match of @render_members, arm by arm
as_name(i, j, p) ==
    IF j \in PrevVariants(i) THEN NoRet
    ELSE IF j = i THEN [present |-> TRUE, ptr |-> p, hr |-> NoStatus]
    ELSE [present |-> TRUE, ptr |-> p, hr |-> NoStatus]

\* The accessors make no call on the object: they match on self only.
\* (mutation: an accessor that hands out a reference of its own)
accessor_calls_addref(p) == <<Call("AddRef", p)>>
accessor_calls(p) == <<>>

AsName(h, i) ==
    /\ Running
    /\ IsLive(h) /\ handles[h].variant # 0
    /\ LET p == handles[h].ptr
           n == NativeRun(Native, accessor_calls(p)) IN
        /\ refcount' = n.rc
        /\ destroyed' = n.de
        /\ last' = Op("as_name", h, 0, p, accessor_calls(p), NoQuery,
                      as_name(i, handles[h].variant, p), i)
    /\ UNCHANGED <<handles, owned, dropImpl, asUnknownAsserts, debugAssertions, derefImpl, threads, halt>>

\* stringify!($variant): the variants' names, as the chain declares them
VariantName(k) == <<"V1", "V2", "V3">>[k]

\* concat!("Tried to unwrap a ", $prev_variant, " as a ", $variant)
\* (mutation: the message names the requested variant twice)
panic_msg_asked_twice(i, j) ==
    <<"Tried to unwrap a ", VariantName(i), " as a ", VariantName(i)>>
panic_msg(i, j) ==
    <<"Tried to unwrap a ", VariantName(j), " as a ", VariantName(i)>>

\* $unwrap_name of variant i on a value holding variant j with pointer p:
\* a panic on the earlier variants, the ComPtr on its own and the later ones
unwrap_name(i, j, p) ==
    IF j \in PrevVariants(i)
    THEN [panic |-> TRUE, ret |-> NoRet, msg |-> panic_msg(i, j)]
    ELSE IF j = i
    THEN [panic |-> FALSE, ret |-> [present |-> TRUE, ptr |-> p, hr |-> NoStatus],
          msg |-> <<>>]
    ELSE [panic |-> FALSE, ret |-> [present |-> TRUE, ptr |-> p, hr |-> NoStatus],
          msg |-> <<>>]

UnwrapName(h, i) ==
    /\ Running
    /\ IsLive(h) /\ handles[h].variant # 0
    /\ LET p == handles[h].ptr
           r == unwrap_name(i, handles[h].variant, p)
           n == NativeRun(Native, accessor_calls(p)) IN
        /\ refcount' = n.rc
        /\ destroyed' = n.de
        /\ halt' = IF r.panic THEN "panic" ELSE halt
        /\ last' = [Op("unwrap_name", h, 0, p, accessor_calls(p), NoQuery, r.ret, i)
                        EXCEPT !.out = r.msg]
    /\ UNCHANGED <<handles, owned, dropImpl, asUnknownAsserts, debugAssertions, derefImpl, threads>>

\* impl Deref for the enum: self.$first_unwrap_name()
\* (mutation: the deref goes through the last variant's unwrap)
chain_deref_last(j, p) == unwrap_name(NumVariants, j, p)
chain_deref(j, p) == unwrap_name(FirstVariant, j, p)

ChainDeref(h) ==
    /\ Running
    /\ IsLive(h) /\ handles[h].variant # 0
    /\ LET p == handles[h].ptr
           r == chain_deref(handles[h].variant, p)
           n == NativeRun(Native, accessor_calls(p)) IN
        /\ refcount' = n.rc
        /\ destroyed' = n.de
        /\ halt' = IF r.panic THEN "panic" ELSE halt
        /\ last' = [Op("chain_deref", h, 0, p, accessor_calls(p), NoQuery, r.ret,
                        FirstVariant)
                        EXCEPT !.out = r.msg]
    /\ UNCHANGED <<handles, owned, dropImpl, asUnknownAsserts, debugAssertions, derefImpl, threads>>

Next ==
    \/ \E a \in Addr : NativeGrant(a)
    \/ MakeNull
    \/ \E a \in Addr : from_reffed(a)
    \/ \E a \in Addr : from_raw(a)
    \/ \E h \in HandleId : Clone(h)
    \/ \E h \in HandleId : Move(h)
    \/ \E h \in HandleId : Drop(h)
    \/ \E h \in HandleId : CastStrict(h)
    \/ \E h \in HandleId : CastTolerant(h)

\* The chain enum and the ComPtr operations its values are built from and
\* end with.
NextChain ==
    \/ \E a \in Addr : from_raw(a)
    \/ \E h \in HandleId : Clone(h)
    \/ \E h \in HandleId : Drop(h)
    \/ \E h \in HandleId, i \in Variant : FromName(h, i)
    \/ \E h \in HandleId, i \in Variant : AsName(h, i)

\* The life of a chain value: made from a ComPtr, read through its three
\* kinds of accessor, dropped.
NextAccess ==
    \/ \E a \in Addr : from_raw(a)
    \/ \E h \in HandleId : Drop(h)
    \/ \E h \in HandleId, i \in Variant : FromName(h, i)
    \/ \E h \in HandleId, i \in Variant : AsName(h, i)
    \/ \E h \in HandleId, i \in Variant : UnwrapName(h, i)
    \/ \E h \in HandleId : ChainDeref(h)

\* ComPtr values made and compared.
NextEq ==
    \/ MakeNull
    \/ \E a \in Addr : from_raw(a)
    \/ \E h \in HandleId : Clone(h)
    \/ \E h1, h2 \in HandleId : Compare(h1, h2)
    \/ \E h \in HandleId, p \in Ptr : CompareRaw(h, p)

\* ComPtr values, null or not, and the operations that assume non-null.
NextMisuse ==
    \/ MakeNull
    \/ \E a \in Addr : from_raw(a)
    \/ \E h \in HandleId : Clone(h)
    \/ \E h \in HandleId : AsUnknown(h)
    \/ \E h \in HandleId : Deref(h)
    \/ \E h \in HandleId : CloneNull(h)
    \/ \E h \in HandleId : CastStrictNull(h)

Spec == Init /\ [][Next]_vars

MisuseSpec == InitBuilds /\ [][NextMisuse]_vars

\* ComPtrs filled through their slots.
NextSlot ==
    \/ \E a \in Addr : NativeGrant(a)
    \/ MakeNull
    \/ \E a \in Addr : from_raw(a)
    \/ \E h \in HandleId : MutVoid(h)
    \/ \E h \in HandleId : MutSelf(h)
    \/ \E h \in HandleId, a \in Addr : WriteSlot(h, a)
    \/ \E h \in HandleId : Drop(h)

SlotSpec == Init /\ [][NextSlot]_vars

\* Threads making, cloning and dropping ComPtrs of their own.
NextThreads ==
    \/ \E t \in Thread, a \in Addr : ThreadFromRaw(t, a)
    \/ \E t \in Thread, h \in HandleId : ThreadCloneCall(t, h)
    \/ \E t \in Thread : ThreadCloneRet(t)
    \/ \E t \in Thread, h \in HandleId : ThreadDrop(t, h)

ThreadSpec == Init /\ [][NextThreads]_vars

EqSpec == Init /\ [][NextEq]_vars

ChainSpec == Init /\ [][NextChain]_vars

AccessSpec == Init /\ [][NextAccess]_vars

\* ------------------------------------------------------------ properties
LiveAt(a) == {h \in HandleId : handles[h].st = "live" /\ handles[h].ptr = a}
Made == {h \in HandleId : handles[h].st # "free"}
CountCalls(calls, fn) == Cardinality({k \in 1..Len(calls) : calls[k].fn = fn})

RECURSIVE Final(_)
Final(h) == IF handles[h].st = "moved" THEN Final(handles[h].succ) ELSE h

RECURSIVE LineageRel(_)
LineageRel(h) ==
    handles[h].rel + (IF handles[h].st = "moved" THEN LineageRel(handles[h].succ) ELSE 0)

\* C1: every native object's strong-reference count equals the number of
\* live non-null ComPtrs holding its address (plus the references the
\* caller still holds as raw pointers, which from_reffed is there to adopt),
\* it never goes below zero, and an ownership operation on a non-null
\* pointer makes exactly the one native call that goes with it: AddRef for
\* from_raw and clone, Release for drop, none for from_reffed and a move.
C1_CountEqualsLiveHandles ==
    /\ \A a \in Addr :
        /\ refcount[a] = Cardinality(LiveAt(a)) + owned[a]
        /\ refcount[a] >= 0
    /\ last.op \in {"from_raw", "clone"} => last.calls = <<Call("AddRef", last.addr)>>
    /\ (last.op = "drop" /\ last.addr # Null) => last.calls = <<Call("Release", last.addr)>>
    /\ last.op \in {"null", "from_reffed", "move"} => last.calls = <<>>

C1_Witness ==
    \E a \in Addr :
        /\ Cardinality(LiveAt(a)) = 2 /\ refcount[a] = 2
        /\ \E h \in HandleId : handles[h].st = "dropped" /\ handles[h].ptr = a

\* C2: for every non-null ComPtr, Release is called exactly once for the
\* reference it owns: by its own drop, or, if it was moved, by the drop of
\* the value at the end of its chain of moves; never twice, and a value
\* that was moved away releases nothing itself.
C2_ReleasedExactlyOnce ==
    \A h \in Made :
        handles[h].ptr # Null =>
            /\ LineageRel(h) <= 1
            /\ (handles[Final(h)].st = "dropped") <=> (LineageRel(h) = 1)
            /\ handles[h].st = "moved" => handles[h].rel = 0

C2_Witness ==
    \E h \in Made :
        /\ handles[h].ptr # Null /\ handles[h].st = "moved"
        /\ handles[Final(h)].st = "dropped" /\ LineageRel(h) = 1

\* C3: dropping a null ComPtr makes no native Release call.
C3_NullDropMakesNoCall ==
    (last.op = "drop" /\ last.addr = Null) => CountCalls(last.calls, "Release") = 0

\* C4: clone of a non-null ComPtr makes exactly one AddRef and yields a
\* ComPtr with the same stored pointer; when the copy is dropped right
\* after, the count is back at its value before the clone, the original is
\* still live with the same non-null pointer, and the object is not destroyed.
C4_CloneThenDropRestores ==
    /\ last.op = "clone" =>
        /\ last.calls = <<Call("AddRef", last.addr)>>
        /\ refcount[last.addr] = last.before + 1
        /\ as_mut_ptr(last.res) = as_mut_ptr(last.h)
        /\ last.ret.ptr = last.addr
    /\ (last.op = "drop" /\ last.pre.op = "clone") =>
        /\ refcount[last.addr] = last.pre.before
        /\ IsLive(last.pre.h)
        /\ ~is_null(last.pre.h) /\ as_mut_ptr(last.pre.h) = last.addr
        /\ destroyed[last.addr] = 0

C4_Witness ==
    /\ last.op = "drop" /\ last.pre.op = "clone" /\ halt = "run"
    /\ handles[last.h].st = "dropped"
    /\ refcount[last.addr] = 1

\* C5: native destruction of an object fires at most once, never while a
\* ComPtr to it is live, and exactly at the drop that takes the count from
\* one to zero: once every ComPtr to it is dropped it has fired.  After a
\* drop that leaves one ComPtr, that one is non-null, equals the raw address
\* and holds the object at count one.
C5_DestroyedOnceAtLastDrop ==
    \A a \in Addr :
        /\ destroyed[a] <= 1
        /\ destroyed[a] = 1 =>
            /\ LiveAt(a) = {} /\ refcount[a] = 0
            /\ \E h \in Made : handles[h].st = "dropped" /\ handles[h].ptr = a
        /\ (/\ LiveAt(a) = {} /\ owned[a] = 0
            /\ \E h \in Made : handles[h].st = "dropped" /\ handles[h].ptr = a)
           => destroyed[a] = 1
        /\ (last.op = "drop" /\ last.addr = a) =>
            /\ (destroyed[a] = 1) <=> (last.before = 1)
            /\ (last.before = 2 /\ owned[a] = 0) =>
                \E b \in HandleId :
                    /\ LiveAt(a) = {b} /\ ~is_null(b) /\ as_mut_ptr(b) = a
                    /\ refcount[a] = 1 /\ destroyed[a] = 0

C5_Witness ==
    \E a \in Addr :
        /\ last.op = "drop" /\ last.addr = a /\ last.before = 1 /\ destroyed[a] = 1
        /\ \E h1, h2 \in Made :
            /\ h1 # h2
            /\ handles[h1].st = "dropped" /\ handles[h1].ptr = a
            /\ handles[h2].st = "dropped" /\ handles[h2].ptr = a

\* C6: from_reffed stores the address and leaves the count as it was,
\* making no native call; from_raw makes exactly one AddRef, so the count
\* is one higher; either way the new ComPtr is non-null and its raw pointer
\* is the address given.
C6_AdoptVersusAcquire ==
    /\ last.op = "from_reffed" =>
        /\ last.calls = <<>>
        /\ refcount[last.addr] = last.before
    /\ last.op = "from_raw" =>
        /\ last.calls = <<Call("AddRef", last.addr)>>
        /\ refcount[last.addr] = last.before + 1
    /\ last.op \in {"from_reffed", "from_raw"} =>
        /\ IsLive(last.res) /\ ~is_null(last.res)
        /\ as_mut_ptr(last.res) = last.addr

C6_Witness ==
    /\ last.op = "from_reffed" /\ refcount[last.addr] = 2
    /\ Cardinality(LiveAt(last.addr)) = 2

\* C7: the tolerant cast returns Some exactly when QueryInterface wrote a
\* non-null pointer, and then a ComPtr of that pointer; the strict cast
\* returns a ComPtr that is non-null exactly when QueryInterface wrote a
\* non-null pointer; on E_NOINTERFACE the tolerant cast returns None and the
\* strict one a null ComPtr with a status that is not S_OK.
C7_QueryResultAgreesWithAddress ==
    /\ last.op = "cast_tolerant" =>
        /\ last.ret.present <=> (last.q.addr # Null)
        /\ last.ret.present =>
            /\ last.res # 0 /\ ~is_null(last.res)
            /\ as_mut_ptr(last.res) = last.q.addr
        /\ ~last.ret.present => last.res = 0
        /\ last.q.hr = "E_NOINTERFACE" => ~last.ret.present
    /\ last.op = "cast_strict" =>
        /\ ~is_null(last.res) <=> (last.q.addr # Null)
        /\ as_mut_ptr(last.res) = last.q.addr
        /\ last.q.hr = "E_NOINTERFACE" => (is_null(last.res) /\ last.ret.hr # S_OK)

C7_Witness ==
    /\ last.op = "cast_strict" /\ last.q.hr = "E_NOINTERFACE"
    /\ IsLive(last.res) /\ is_null(last.res)

\* The part of C8 about the query itself: a cast makes the one
\* QueryInterface call and no AddRef of its own, the count is one higher
\* after a successful cast and unchanged after a failed one, and the drop of
\* a non-null result releases once.
QueryAddsOneReference ==
    /\ last.op \in {"cast_strict", "cast_tolerant"} =>
        /\ last.calls = <<Call("QueryInterface", last.addr)>>
        /\ refcount[last.addr] = last.before + (IF last.q.addr # Null THEN 1 ELSE 0)
    /\ (last.op = "drop" /\ last.pre.op \in {"cast_strict", "cast_tolerant"}
            /\ last.addr # Null) =>
        /\ last.calls = <<Call("Release", last.addr)>>
        /\ handles[last.h].rel = 1
        /\ handles[last.pre.h].st = "dropped" => handles[last.pre.h].rel = 1

\* C8: a successful cast raises the count by exactly one with no AddRef by
\* the code, source and result each release once when dropped; a failed
\* cast leaves the count unchanged and the drop of its result makes no
\* Release call.
C8_QueryOwnsOneReference ==
    /\ QueryAddsOneReference
    /\ (last.op = "drop" /\ last.pre.op \in {"cast_strict", "cast_tolerant"}
            /\ last.addr = Null) =>
        CountCalls(last.calls, "Release") = 0

\* C9: both casts return the HRESULT of QueryInterface as it came, whether
\* or not the pointer written is null, and call QueryInterface once.
C9_StatusReturnedVerbatim ==
    last.op \in {"cast_strict", "cast_tolerant"} =>
        /\ last.ret.hr = last.q.hr
        /\ CountCalls(last.calls, "QueryInterface") = 1

C9_Witness ==
    /\ last.op = "cast_strict" /\ last.q.hr = "E_POINTER" /\ last.ret.hr = "E_POINTER"
    /\ is_null(last.res)

\* C10: on a chain value holding variant j, the as-accessor of variant i
\* returns Some exactly when j >= i and None when j < i, and the ComPtr it
\* returns has the stored pointer of the one held.
C10_AsNameIffAtLeast ==
    last.op = "as_name" =>
        /\ last.ret.present <=> (handles[last.h].variant >= last.i)
        /\ last.ret.present => last.ret.ptr = as_mut_ptr(last.h)

C10_Witness ==
    /\ last.op = "as_name" /\ handles[last.h].variant = NumVariants /\ last.i = 1
    /\ last.ret.present /\ last.ret.ptr # Null

\* C11: on a chain value holding variant j, the unwrap-accessor of variant
\* i returns what the as-accessor returns whenever j >= i, and panics
\* exactly when j < i, with a message that names the held variant j and
\* then the requested variant i.
C11_UnwrapPanicsIffEarlier ==
    last.op = "unwrap_name" =>
        LET j == handles[last.h].variant
            i == last.i IN
        /\ (halt = "panic") <=> (j < i)
        /\ j >= i =>
            /\ last.ret.present
            /\ last.ret = as_name(i, j, as_mut_ptr(last.h))
            /\ last.out = <<>>
        /\ j < i =>
            /\ ~last.ret.present
            /\ Len(last.out) = 4
            /\ last.out[2] = VariantName(j)
            /\ last.out[4] = VariantName(i)
            /\ last.out[2] # last.out[4]

C11_Witness ==
    /\ last.op = "unwrap_name" /\ halt = "panic"
    /\ handles[last.h].variant = 1 /\ last.i = 3
    /\ last.out = <<"Tried to unwrap a ", "V1", " as a ", "V3">>

\* C12: the deref of a chain value to its base never panics, whichever
\* variant is held, and yields the ComPtr the first variant's as-accessor
\* yields: present, with the stored pointer of the one held.
C12_DerefToBaseNeverFails ==
    last.op = "chain_deref" =>
        /\ halt = "run"
        /\ last.out = <<>>
        /\ last.ret.present
        /\ last.ret = as_name(FirstVariant, handles[last.h].variant, as_mut_ptr(last.h))
        /\ last.ret.ptr = as_mut_ptr(last.h)

C12_Witness ==
    /\ last.op = "chain_deref" /\ handles[last.h].variant = NumVariants
    /\ last.ret.present /\ last.ret.ptr # Null /\ halt = "run"

Accessors == {"as_name", "unwrap_name", "chain_deref"}

\* C13: the accessors of a chain value only read it.  A step of the
\* as-accessor, the unwrap-accessor or the deref makes no native call and
\* leaves every ComPtr, every count and every destruction as they were; and
\* no step at all changes the variant or the stored pointer of a chain
\* value once it is made.
C13_AccessorsReadOnly ==
    [][/\ last'.op \in Accessors =>
            /\ last'.calls = <<>>
            /\ UNCHANGED <<handles, refcount, destroyed, owned>>
       /\ \A h \in HandleId :
            handles[h].variant # 0 =>
                /\ handles'[h].variant = handles[h].variant
                /\ handles'[h].ptr = handles[h].ptr]_vars

C13_Witness ==
    /\ last.op = "unwrap_name" /\ halt = "run"
    /\ handles[last.h].variant = 2 /\ last.i = 1
    /\ refcount[last.addr] = 1 /\ LiveAt(last.addr) = {last.h}

\* C14: a chain value holds the one ComPtr it was made from.  Making it, at
\* whichever variant, makes no native call and leaves the count; dropping
\* it makes exactly one Release, for every variant and whatever accessors
\* were called in between; a chain value not yet dropped has released
\* nothing.
C14_ChainOwnsOneHandle ==
    /\ last.op = "from_name" =>
        /\ last.calls = <<>>
        /\ refcount[last.addr] = last.before
        /\ IsLive(last.h) /\ handles[last.h].variant = last.i
        /\ as_mut_ptr(last.h) = last.addr
    /\ \A h \in Made :
        (handles[h].variant # 0 /\ handles[h].ptr # Null) =>
            /\ handles[h].rel <= 1
            /\ (handles[h].st = "dropped") <=> (handles[h].rel = 1)
    /\ (last.op = "drop" /\ handles[last.h].variant # 0 /\ last.addr # Null) =>
        /\ last.calls = <<Call("Release", last.addr)>>
        /\ refcount[last.addr] = last.before - 1

C14_Witness ==
    /\ last.op = "drop" /\ handles[last.h].variant = NumVariants
    /\ handles[last.h].st = "dropped" /\ handles[last.h].rel = 1
    /\ last.before = 1 /\ destroyed[last.addr] = 1

\* C15: two ComPtrs are equal exactly when their stored pointers are the
\* same: a ComPtr equals itself, a == b and b == a agree, two ComPtrs made
\* by from_raw on one address are equal though each raised the count, null
\* ComPtrs are null and equal each other, a ComPtr equals a raw pointer
\* exactly when that is its stored pointer, and equal ComPtrs write the
\* same to a hasher.
C15_EqualityIsPointerIdentity ==
    /\ last.op = "eq" =>
        LET h1 == last.h
            h2 == last.out[1] IN
        /\ last.out[2] <=> (as_mut_ptr(h1) = as_mut_ptr(h2))
        /\ last.out[2] <=> last.out[3]
        /\ h1 = h2 => last.out[2]
        /\ (is_null(h1) /\ is_null(h2)) => last.out[2]
        /\ last.out[2] => last.out[4] = last.out[5]
    /\ last.op = "eq_raw" =>
        last.out[2] <=> (as_mut_ptr(last.h) = last.out[1])
    /\ last.op = "null" => is_null(last.res)

C15_Witness ==
    /\ last.op = "eq" /\ last.h # last.out[1] /\ last.out[2]
    /\ ~is_null(last.h) /\ refcount[last.addr] = 2
    /\ LiveAt(last.addr) = {last.h, last.out[1]}

\* C16: as_unknown, the unsafe cast, clone and deref, called on a null
\* ComPtr, stop with an assertion failure before any native call is made
\* and before any reference to the object comes back.
C16_NullUseAssertsFirst ==
    (/\ last.op \in {"as_unknown", "deref", "clone", "cast_strict"}
     /\ last.h # 0 /\ last.addr = Null) =>
        /\ halt = "panic"
        /\ last.calls = <<>>
        /\ ~last.ret.present

ClonesAt(a) == {t \in InClone : handles[threads[t].h].ptr = a}
DroppedAt(a) == {h \in Made : handles[h].st = "dropped" /\ handles[h].ptr = a}

C18_CastSlotsStartNull ==
    /\ last.op = "cast_tolerant" =>
        /\ \A k \in 1..Len(last.out) : last.out[k] # Null /\ last.out[k] = last.q.addr
        /\ (last.out # <<>>) <=> (last.q.addr # Null)
        /\ (last.out # <<>>) <=> last.ret.present
        /\ halt = "run"
    /\ last.op = "cast_strict" =>
        /\ last.out = <<Null>>
        /\ handles[last.res].rel = 0 /\ handles[last.res].variant = 0
        /\ \A a \in Addr : refcount[a] = Cardinality(LiveAt(a)) + owned[a]
        /\ halt = "run"

C18_Witness ==
    /\ last.op = "cast_strict" /\ last.q.hr = S_OK /\ last.out = <<Null>>
    /\ ~is_null(last.res) /\ as_mut_ptr(last.res) = last.addr
    /\ Cardinality(LiveAt(last.addr)) = 2 /\ refcount[last.addr] = 2

Overwritten(a) == {h \in Made : handles[h].st = "overwritten" /\ handles[h].ptr = a}
SlotOps == {"mut_void", "mut_self"}

\* C19: mut_void and mut_self make no native call and leave the stored
\* pointer and every count as they were.  A write of a pointer the caller
\* holds a reference on into the slot of a null ComPtr makes no call, leaves
\* the counts alone and gives the ComPtr that pointer and that one
\* reference, which its drop releases once.  The same write into the slot
\* of a non-null ComPtr makes no Release for the pointer it replaces: that
\* object's count stays above its live ComPtrs (and the caller's
\* references) from then on, and the object is never destroyed.
C19_SlotWriteRunsNoCode ==
    /\ [][/\ last'.op \in SlotOps =>
              /\ last'.calls = <<>>
              /\ UNCHANGED <<handles, refcount, destroyed, owned, halt>>
          /\ last'.op = "slot_write" =>
              /\ last'.calls = <<>>
              /\ UNCHANGED <<refcount, destroyed, halt>>
              /\ handles'[last'.res].ptr = last'.out[1]
              /\ owned'[last'.out[1]] = owned[last'.out[1]] - 1]_vars
    /\ [](/\ (last.op = "slot_write" /\ last.addr = Null) =>
              /\ last.res = last.h /\ IsLive(last.h)
              /\ as_mut_ptr(last.h) = last.out[1]
              /\ Overwritten(last.out[1]) = {} =>
                    refcount[last.out[1]] =
                        Cardinality(LiveAt(last.out[1])) + owned[last.out[1]]
          /\ (last.op = "drop" /\ last.pre.op = "slot_write" /\ last.addr # Null) =>
              /\ last.calls = <<Call("Release", last.addr)>>
              /\ handles[last.h].rel = 1
              /\ refcount[last.addr] = last.before - 1
          /\ (last.op = "slot_write" /\ last.addr # Null) =>
              /\ CountCalls(last.calls, "Release") = 0
              /\ last.h \in Overwritten(last.addr) /\ handles[last.h].rel = 0
              /\ refcount[last.addr] = last.before
          /\ \A a \in Addr :
              /\ refcount[a] = Cardinality(LiveAt(a)) + owned[a]
                                + Cardinality(Overwritten(a))
              /\ Overwritten(a) # {} =>
                    /\ refcount[a] > Cardinality(LiveAt(a)) + owned[a]
                    /\ destroyed[a] = 0)

C19_Witness ==
    /\ last.op = "drop" /\ last.pre.op = "slot_write" /\ last.addr # Null
    /\ Overwritten(last.addr) # {} /\ LiveAt(last.addr) = {} /\ owned[last.addr] = 0
    /\ refcount[last.addr] = 1 /\ destroyed[last.addr] = 0

====
